---- MODULE Spec2Model ----
(***************************************************************************)
(* A model of libblkid's low-level probing core (libs/blkid/src/probe.c):  *)
(* the probe session (struct blkid_struct_probe), its two-tier buffer      *)
(* cache, the filter bitmap, the tag store with its value emitters and the *)
(* dispatch loop blkid_do_probe().                                         *)
(*                                                                         *)
(* Bytes are integers 0..255.  A device is an immutable image: a size and  *)
(* a sparse set of byte placements over a background of zero bytes.        *)
(* Buffers hold symbolic snapshots of device ranges, so that the 64 KiB    *)
(* superblock buffer keeps its real size.                                  *)
(***************************************************************************)
EXTENDS Integers, Sequences, FiniteSets, TLC

\* ------------------------------------------------------------------------
\* Constants of blkidP.h / blkid.h (headers outside src/; values as the
\* specification gives them).
\* ------------------------------------------------------------------------
BLKID_SB_BUFSIZ == 65536
BLKID_PROBVAL_NVALS == 16
BLKID_PROBVAL_BUFSIZ == 256

\* 8 * sizeof(unsigned long) on an LP64 build
blkid_bmp_wordsize == 64

\* the null pointer of a name (const char *)
NULL == "<NULL>"

\* C evaluates a call once and works on with its result: F applied to the
\* value of v, with v evaluated exactly once
Bind(v, F(_)) == CHOOSE r \in {F(x) : x \in {v}} : TRUE

\* ------------------------------------------------------------------------
\* C strings as byte sequences (without the terminating NUL).
\* ------------------------------------------------------------------------
CStr(s) ==
    CASE s = "xfs" -> <<120, 102, 115>>
      [] s = "vfat" -> <<118, 102, 97, 116>>
      [] s = "iso9660" -> <<105, 115, 111, 57, 54, 54, 48>>
      [] s = "LVM2_member" -> <<76, 86, 77, 50, 95, 109, 101, 109, 98, 101, 114>>
      [] s = "linux_raid_member" ->
            <<108, 105, 110, 117, 120, 95, 114, 97, 105, 100, 95, 109, 101, 109, 98, 101, 114>>
      [] s = "reiserfs" -> <<114, 101, 105, 115, 101, 114, 102, 115>>
      [] s = "filesystem" -> <<102, 105, 108, 101, 115, 121, 115, 116, 101, 109>>
      [] s = "raid" -> <<114, 97, 105, 100>>
      [] s = "crypto" -> <<99, 114, 121, 112, 116, 111>>
      [] s = "other" -> <<111, 116, 104, 101, 114>>
      [] s = "unknown" -> <<117, 110, 107, 110, 111, 119, 110>>
      [] s = "msdos" -> <<109, 115, 100, 111, 115>>
      [] s = "LVM2 001" -> <<76, 86, 77, 50, 32, 48, 48, 49>>
      [] s = "3.6" -> <<51, 46, 54>>
      [] s = "XFSB" -> <<88, 70, 83, 66>>
      [] s = "CD001" -> <<67, 68, 48, 48, 49>>
      [] s = "ReIsEr2Fs" -> <<82, 101, 73, 115, 69, 114, 50, 70, 115>>
      [] s = "swsuspend" -> <<115, 119, 115, 117, 115, 112, 101, 110, 100>>
      [] s = "S1SUSPEND" -> <<83, 49, 83, 85, 83, 80, 69, 78, 68>>
      [] s = "-" -> <<45>>
      [] s = "." -> <<46>>
      [] s = "ext2" -> <<101, 120, 116, 50>>
      [] s = "oracleasm" -> <<111, 114, 97, 99, 108, 101, 97, 115, 109>>
      [] s = "ORCLDISK" -> <<79, 82, 67, 76, 68, 73, 83, 75>>
      [] s = "udf" -> <<117, 100, 102>>
      [] s = "gfs" -> <<103, 102, 115>>
      [] s = "BEA01" -> <<66, 69, 65, 48, 49>>

\* strlen(s) + 1 bytes of a C string: the characters and the NUL
CStrZ(s) == CStr(s) \o <<0>>

\* ------------------------------------------------------------------------
\* Devices: what lseek()/read() on a file descriptor see.
\* ------------------------------------------------------------------------
Place(at, bytes) == [at |-> at, bytes |-> bytes]

\* fd 0 is the descriptor of a calloc()ed session: nothing readable.
Devices ==
    [fd \in 0..15 |->
        CASE fd = 0 -> [size |-> 0, data |-> {}]
          \* an empty (all-zero) 1 MiB device
          [] fd = 1 -> [size |-> 1048576, data |-> {}]
          \* an LVM2 physical volume that still carries an xfs superblock
          [] fd = 2 -> [size |-> 1048576,
                        data |-> {Place(0, CStr("XFSB")),
                                  Place(536, CStr("LVM2 001"))}]
          \* an ISO-9660 image with a valid FAT boot block
          [] fd = 3 -> [size |-> 1048576,
                        data |-> {Place(510, <<85, 170>>), Place(21, <<248>>),
                                  Place(32769, CStr("CD001"))}]
          \* an ISO-9660 image with a boot signature, but no FAT behind it
          [] fd = 4 -> [size |-> 1048576,
                        data |-> {Place(510, <<85, 170>>),
                                  Place(32769, CStr("CD001"))}]
          \* a 600-byte device that starts with the xfs magic
          [] fd = 5 -> [size |-> 600, data |-> {Place(0, CStr("XFSB"))}]
          \* a 256-byte device that starts with the xfs magic
          [] fd = 6 -> [size |-> 256, data |-> {Place(0, CStr("XFSB"))}]
          \* reiserfs (superblock at 64 KiB) and a hibernation signature, on
          \* a device of ragged size
          [] fd = 7 -> [size |-> 200000,
                        data |-> {Place(4086, CStr("S1SUSPEND")),
                                  Place(65588, CStr("ReIsEr2Fs"))}]
          \* a boot signature only
          [] fd = 8 -> [size |-> 1048576, data |-> {Place(510, <<85, 170>>)}]
          \* an ext2 image: magic, UUID, label "my  root  " and journal UUID
          \* in the superblock at 1024
          [] fd = 9 -> [size |-> 1048576,
                        data |-> {Place(1024 + 56, <<83, 239>>),
                                  Place(1024 + 104,
                                        <<171, 205, 239, 1, 35, 69, 103, 137,
                                          10, 188, 222, 240, 18, 52, 86, 120>>),
                                  Place(1024 + 120,
                                        <<109, 121, 32, 32, 114, 111, 111, 116, 32, 32>>),
                                  Place(1024 + 208,
                                        <<0, 0, 0, 0, 0, 0, 0, 0,
                                          0, 0, 0, 0, 0, 74, 0, 255>>)}]
          \* an Oracle ASM disk
          [] fd = 10 -> [size |-> 1048576, data |-> {Place(32, CStr("ORCLDISK"))}]
          \* xfs on a device that ends inside the second KiB
          [] fd = 11 -> [size |-> 1500, data |-> {Place(0, CStr("XFSB"))}]
          \* ISO-9660 on a device that ends inside the KiB at 64 KiB
          [] fd = 12 -> [size |-> 66000, data |-> {Place(32769, CStr("CD001"))}]
          \* a disk that ends 256 bytes behind a 64 KiB boundary, with a
          \* partition at 64 KiB: reiserfs in the partition
          [] fd = 13 -> [size |-> 262400,
                         data |-> {Place(65536 + 65588, CStr("ReIsEr2Fs"))}]
          \* the same disk with the reiserfs magic not at 64 KiB of the
          \* partition, but 52 bytes behind the last 64 KiB boundary
          [] fd = 14 -> [size |-> 262400,
                         data |-> {Place(262144 + 52, CStr("ReIsEr2Fs"))}]
          \* gfs (superblock at 64 KiB) on a device that ends 512 bytes
          \* behind 512 KiB
          [] fd = 15 -> [size |-> 524800,
                         data |-> {Place(65536, <<1, 22, 25, 112>>)}]]

\* the byte of device fd at absolute position pos (pos < size)
DevByte(fd, pos) ==
    LET hits == {pl \in Devices[fd].data :
                    pl.at <= pos /\ pos < pl.at + Len(pl.bytes)}
    IN  IF hits = {} THEN 0
        ELSE LET pl == CHOOSE h \in hits : TRUE IN pl.bytes[pos - pl.at + 1]

\* the bytes of device fd at [pos, pos + n)
DevBytes(fd, pos, n) == [k \in 1..n |-> DevByte(fd, pos + k - 1)]

\* lseek(fd, pos, SEEK_SET) fails for a negative position
lseek_ok(fd, pos) == pos >= 0

\* read(fd, , len) at position pos: the number of bytes read
read_count(fd, pos, len) ==
    IF pos >= Devices[fd].size THEN 0
    ELSE IF pos + len <= Devices[fd].size THEN len
    ELSE Devices[fd].size - pos

\* blkdev_get_size(): the size of the whole device
blkdev_get_size(fd) == Devices[fd].size

\* ------------------------------------------------------------------------
\* The probe session: struct blkid_struct_probe after blkid_new_probe()
\* (calloc: every field zero, every pointer NULL).
\*
\*   sbbuf    what the superblock buffer holds: the bytes of device
\*            sbbuf.fd from sbbuf.base on, sbbuf_len of them
\*   buf      what the general buffer holds: segments [lo, hi) of buffer
\*            positions, each a copy of device seg.fd from seg.abs on
\*            (seg.fd = -1: bytes zeroed by memset)
\*   fltr     the set of bit positions set in the filter bitmap
\*   probreq  the set of BLKID_PROBREQ_* flags requested
\*   vals     the tag store; vals[k].data is the first vals[k].len bytes of
\*            the slot's array of BLKID_PROBVAL_BUFSIZ bytes (all of the
\*            array, if len is larger)
\*   live     not a field of the struct: whether the allocation exists
\*            (FALSE after blkid_free_probe)
\*   ub       not a field of the struct: "none", or the undefined behaviour
\*            the process has run into ("null_deref": a store through a
\*            null pointer; "oob_read", "oob_write": memory behind vals[]
\*            used as a slot, see UbOutcomes)
\* ------------------------------------------------------------------------
EmptyVal == [name |-> NULL, data |-> <<>>, len |-> 0]

blkid_new_probe ==
    [fd |-> 0, off |-> 0, size |-> 0,
     sbbuf_null |-> TRUE, sbbuf |-> [fd |-> 0, base |-> 0], sbbuf_len |-> 0,
     buf_null |-> TRUE, buf |-> <<>>, buf_max |-> 0, buf_off |-> 0, buf_len |-> 0,
     probreq |-> {},
     fltr_null |-> TRUE, fltr |-> {},
     idx |-> 0,
     vals |-> [k \in 0..(BLKID_PROBVAL_NVALS - 1) |-> EmptyVal],
     nvals |-> 0,
     live |-> TRUE,
     ub |-> "none"]

\* free(pr->fltr); free(pr->buf); free(pr->sbbuf); free(pr): the filter, both
\* buffers and the session are released, the descriptor stays open.
\* Nothing of the session is left: the record only keeps its shape, and no
\* call may be made on it any more.
blkid_free_probe(p) == [blkid_new_probe EXCEPT !.live = FALSE]

\* memset(pr->vals, 0, sizeof(pr->vals)); pr->nvals = 0
blkid_probe_reset_vals(p) ==
    [p EXCEPT !.vals = [k \in 0..(BLKID_PROBVAL_NVALS - 1) |-> EmptyVal],
              !.nvals = 0]

Seg(lo, hi, fd, abs) == [lo |-> lo, hi |-> hi, fd |-> fd, abs |-> abs]

\* a blkid_reset_probe that leaves the window of the general buffer valid
blkid_reset_probe_keeps_window(p) ==
    blkid_probe_reset_vals(
        [p EXCEPT !.buf = IF p.buf_null \/ p.buf_max = 0 THEN p.buf
                          ELSE <<Seg(0, p.buf_max, -1, 0)>>,
                  !.sbbuf_len = 0])

blkid_reset_probe(p) ==
    blkid_probe_reset_vals(
        [p EXCEPT !.buf = IF p.buf_null \/ p.buf_max = 0 THEN p.buf
                          ELSE <<Seg(0, p.buf_max, -1, 0)>>,
                  !.buf_off = 0,
                  !.buf_len = 0,
                  !.sbbuf_len = 0])

\* ------------------------------------------------------------------------
\* The buffer cache.
\* ------------------------------------------------------------------------
NullPtr == [null |-> TRUE, tier |-> "none", pos |-> 0]
Ptr(tier, pos) == [null |-> FALSE, tier |-> tier, pos |-> pos]

\* the general buffer after read() stored n bytes of device fd, taken from
\* abs on, at its start: what lay behind the first n bytes stays
RECURSIVE ClipSegs(_, _)
ClipSegs(segs, n) ==
    IF segs = <<>> THEN <<>>
    ELSE LET s == Head(segs) IN
         IF s.hi <= n THEN ClipSegs(Tail(segs), n)
         ELSE IF s.lo >= n THEN <<s>> \o ClipSegs(Tail(segs), n)
         ELSE <<Seg(n, s.hi, s.fd, IF s.fd = -1 THEN 0 ELSE s.abs + (n - s.lo))>>
              \o ClipSegs(Tail(segs), n)

StoreRead(segs, n, fd, abs) ==
    IF n <= 0 THEN segs ELSE <<Seg(0, n, fd, abs)>> \o ClipSegs(segs, n)

\* the byte at position q of the general buffer (-1: never written)
BufByte(p, q) ==
    LET hits == {k \in 1..Len(p.buf) : p.buf[k].lo <= q /\ q < p.buf[k].hi}
    IN  IF hits = {} THEN -1
        ELSE LET s == p.buf[CHOOSE k \in hits : TRUE] IN
             IF s.fd = -1 THEN 0 ELSE DevByte(s.fd, s.abs + (q - s.lo))

\* the byte at position q of the superblock buffer (-1: never read)
SbByte(p, q) ==
    IF q < p.sbbuf_len THEN DevByte(p.sbbuf.fd, p.sbbuf.base + q) ELSE -1

\* the n bytes at ptr + k of a pointer blkid_probe_get_buffer() returned
PtrBytes(p, ptr, k, n) ==
    [j \in 1..n |-> IF ptr.tier = "sbbuf" THEN SbByte(p, ptr.pos + k + j - 1)
                    ELSE BufByte(p, ptr.pos + k + j - 1)]

\* pr->buf + pos.  While pr->buf is NULL (no request longer than buf_max = 0
\* was made yet) only a request of no bytes gets here, with pos = 0: the
\* pointer returned is NULL.
BufPtr(p, pos) == IF p.buf_null THEN NullPtr ELSE Ptr("buf", pos)

\* Returns the session after the call and the pointer returned.  malloc()
\* and realloc() are taken to succeed.
blkid_probe_get_buffer(p, off, len) ==
    IF off + len <= BLKID_SB_BUFSIZ THEN
        LET p1 == [p EXCEPT !.sbbuf_null = FALSE] IN
        IF p1.sbbuf_len = 0 /\ ~lseek_ok(p1.fd, p1.off)
        THEN [pr |-> p1, ret |-> NullPtr]
        ELSE
            LET ret_read == read_count(p1.fd, p1.off, BLKID_SB_BUFSIZ)
                p2 == IF p1.sbbuf_len = 0
                      THEN [p1 EXCEPT !.sbbuf = [fd |-> p1.fd, base |-> p1.off],
                                      !.sbbuf_len = ret_read]
                      ELSE p1
            IN  IF off + len > p2.sbbuf_len
                THEN [pr |-> p2, ret |-> NullPtr]
                ELSE [pr |-> p2, ret |-> Ptr("sbbuf", off)]
    ELSE
        LET newbuf == len > p.buf_max
            p1 == IF newbuf
                  THEN [p EXCEPT !.buf_null = FALSE, !.buf_max = len,
                                 !.buf_off = 0, !.buf_len = 0]
                  ELSE p
        IN  IF newbuf \/ off < p1.buf_off \/ off + len > p1.buf_off + p1.buf_len
            THEN
                IF ~lseek_ok(p1.fd, p1.off + off)
                THEN [pr |-> p1, ret |-> NullPtr]
                ELSE
                    LET ret_read == read_count(p1.fd, p1.off + off, len)
                        p2 == [p1 EXCEPT !.buf = StoreRead(p1.buf, ret_read,
                                                           p1.fd, p1.off + off)]
                    IN  IF ret_read # len
                        THEN [pr |-> p2, ret |-> NullPtr]
                        ELSE [pr |-> [p2 EXCEPT !.buf_off = off, !.buf_len = len],
                              ret |-> BufPtr(p2, 0)]
            ELSE [pr |-> p1,
                  ret |-> BufPtr(p1, IF off # 0 THEN off - p1.buf_off ELSE 0)]

\* ------------------------------------------------------------------------
\* The tag store and the value emitters.  An emitter returns the session
\* after the call and its return code.
\* ------------------------------------------------------------------------
Min(a, b) == IF a < b THEN a ELSE b

\* the first n bytes of data (memcpy of n bytes from the caller's buffer)
Take(data, n) == [k \in 1..Min(n, Len(data)) |-> data[k]]

\* [pr, slot]: slot is the index of the slot handed out, -1 for NULL
blkid_probe_assign_value(p, name) ==
    IF name = NULL THEN [pr |-> p, slot |-> -1]
    ELSE IF p.nvals >= BLKID_PROBVAL_NVALS THEN [pr |-> p, slot |-> -1]
    ELSE [pr |-> [p EXCEPT !.vals[p.nvals].name = name, !.nvals = p.nvals + 1],
          slot |-> p.nvals]

blkid_probe_set_value(p, name, data, len) ==
    LET len1 == IF len > BLKID_PROBVAL_BUFSIZ THEN BLKID_PROBVAL_BUFSIZ ELSE len
    IN  Bind(blkid_probe_assign_value(p, name), LAMBDA a :
            IF a.slot = -1 THEN [pr |-> a.pr, rc |-> -1]
            ELSE [pr |-> [a.pr EXCEPT !.vals[a.slot].data = Take(data, len1),
                                      !.vals[a.slot].len = len1],
                  rc |-> 0])

blkid_probe_set_version(p, version) ==
    IF "VERSION" \in p.probreq
    THEN blkid_probe_set_value(p, "VERSION", CStrZ(version), Len(CStr(version)) + 1)
    ELSE [pr |-> p, rc |-> 0]

\* usage is the set of BLKID_USAGE_* bits of a descriptor
blkid_probe_set_usage(p, usage) ==
    LET u == IF "FILESYSTEM" \in usage THEN "filesystem"
             ELSE IF "RAID" \in usage THEN "raid"
             ELSE IF "CRYPTO" \in usage THEN "crypto"
             ELSE IF "OTHER" \in usage THEN "other"
             ELSE "unknown"
    IN  blkid_probe_set_value(p, "USAGE", CStrZ(u), Len(CStr(u)) + 1)

blkid_probe_numof_values(p) == p.nvals

\* ------------------------------------------------------------------------
\* Bytes, strings and formatting (libc).
\* ------------------------------------------------------------------------

\* isspace() of the C locale
isspace(c) == c \in {32, 9, 10, 11, 12, 13}

\* strnlen(data, n): the number of bytes before the first NUL among the
\* first n bytes of data
strnlen(data, n) ==
    LET m == Min(n, Len(data))
        nuls == {k \in 1..m : data[k] = 0}
    IN  IF nuls = {} THEN m
        ELSE (CHOOSE k \in nuls : \A j \in nuls : k <= j) - 1

\* strlen() of a string held as its bytes
strlen(str) == strnlen(str, Len(str))

\* the character of the hex digit d
HexDigit(d, upper) ==
    IF d < 10 THEN 48 + d ELSE IF upper THEN 65 + (d - 10) ELSE 97 + (d - 10)

\* "%02x" / "%02X" of one byte
Hex02(b, upper) == <<HexDigit(b \div 16, upper), HexDigit(b % 16, upper)>>

\* "%u"
RECURSIVE Dec(_)
Dec(n) == IF n < 10 THEN <<48 + n>> ELSE Dec(n \div 10) \o <<48 + (n % 10)>>

\* What vsnprintf() formats.  A format is the sequence of its pieces: the
\* conversions "%s", "%u", "%02x", "%02X", each taking the next argument of
\* ap, and literal text.
RECURSIVE vformat(_, _, _, _)
vformat(fmt, ap, k, a) ==
    IF k > Len(fmt) THEN <<>>
    ELSE IF fmt[k] = "%s" THEN ap[a] \o vformat(fmt, ap, k + 1, a + 1)
    ELSE IF fmt[k] = "%u" THEN Dec(ap[a]) \o vformat(fmt, ap, k + 1, a + 1)
    ELSE IF fmt[k] = "%02x" THEN Hex02(ap[a], FALSE) \o vformat(fmt, ap, k + 1, a + 1)
    ELSE IF fmt[k] = "%02X" THEN Hex02(ap[a], TRUE) \o vformat(fmt, ap, k + 1, a + 1)
    ELSE CStr(fmt[k]) \o vformat(fmt, ap, k + 1, a)

\* ------------------------------------------------------------------------
\* The formatted and the typed value emitters.
\* ------------------------------------------------------------------------

\* vsnprintf() returns the length of the whole formatted string and stores
\* at most sizeof(v->data) - 1 characters of it and a NUL; len is a size_t,
\* so "len <= 0" is "len == 0"
blkid_probe_vsprintf_value(p, name, fmt, ap) ==
    Bind(blkid_probe_assign_value(p, name), LAMBDA a :
        IF a.slot = -1 THEN [pr |-> a.pr, rc |-> -1]
        ELSE LET out == vformat(fmt, ap, 1, 1)
                 len == Len(out)
             IN  IF len <= 0
                 THEN [pr |-> [a.pr EXCEPT !.nvals = a.pr.nvals - 1], rc |-> -1]
                 ELSE [pr |-> [a.pr EXCEPT
                                  !.vals[a.slot].data =
                                      Take(out, BLKID_PROBVAL_BUFSIZ - 1) \o <<0>>,
                                  !.vals[a.slot].len = len + 1],
                       rc |-> 0])

blkid_probe_sprintf_version(p, fmt, ap) ==
    IF "VERSION" \in p.probreq
    THEN blkid_probe_vsprintf_value(p, "VERSION", fmt, ap)
    ELSE [pr |-> p, rc |-> 0]

\* the index behind the last byte of data[0..n) that is not white space
\* (0: there is none): i after "while (i--) ... break" and "++i"
strip_trailing(data, n) ==
    LET black == {k \in 1..n : ~isspace(data[k])}
    IN  IF black = {} THEN 0 ELSE CHOOSE k \in black : \A j \in black : j <= k

\* v->data[len] and v->data[i] with an index of BLKID_PROBVAL_BUFSIZ lie
\* behind the array, in the bytes of v->len, which is assigned afterwards
blkid_probe_set_label(p, label, len) ==
    LET len1 == IF len > BLKID_PROBVAL_BUFSIZ THEN BLKID_PROBVAL_BUFSIZ ELSE len
    IN  Bind(IF "LABEL_RAW" \in p.probreq
             THEN blkid_probe_set_value(p, "LABEL_RAW", label, len1)
             ELSE [pr |-> p, rc |-> 0], LAMBDA raw :
            IF raw.rc < 0 THEN [pr |-> raw.pr, rc |-> -1]
            ELSE IF ~("LABEL" \in raw.pr.probreq) THEN [pr |-> raw.pr, rc |-> 0]
            ELSE Bind(blkid_probe_assign_value(raw.pr, "LABEL"), LAMBDA a :
                     IF a.slot = -1 THEN [pr |-> a.pr, rc |-> -1]
                     ELSE LET data == Take(label, len1)
                              i == strip_trailing(data, strnlen(data, len1))
                          IN  [pr |-> [a.pr EXCEPT
                                          !.vals[a.slot].data =
                                              IF i < BLKID_PROBVAL_BUFSIZ
                                              THEN Take(data, i) \o <<0>>
                                              ELSE data,
                                          !.vals[a.slot].len = i + 1],
                               rc |-> 0]))

\* c of the pass of the loop of encode_to_utf8 with i = 2 * k
utf16_unit(enc, src, k) ==
    IF enc = "UTF16LE" THEN src[2 * k + 2] * 256 + src[2 * k + 1]
    ELSE src[2 * k + 1] * 256 + src[2 * k + 2]

\* the bytes a pass stores for c
utf8_bytes(c) ==
    IF c < 128 THEN <<c>>
    ELSE IF c < 2048 THEN <<192 + (c \div 64), 128 + (c % 64)>>
    ELSE <<224 + (c \div 4096), 128 + ((c \div 64) % 64), 128 + (c % 64)>>

\* the bytes the passes lo .. hi - 1 store, none of them leaving the loop
RECURSIVE utf8_concat(_, _, _, _)
utf8_concat(enc, src, lo, hi) ==
    IF lo >= hi THEN <<>>
    ELSE IF hi = lo + 1 THEN utf8_bytes(utf16_unit(enc, src, lo))
    ELSE utf8_concat(enc, src, lo, (lo + hi) \div 2)
         \o utf8_concat(enc, src, (lo + hi) \div 2, hi)

\* dest before its final NUL (the function returns the number of these
\* bytes).  The loop makes count / 2 passes unless one leaves it: pass k,
\* with j bytes stored by the passes before it, leaves on c = 0 and on
\* j + (the number of bytes of c) >= len.
encode_to_utf8(enc, len, src, count) ==
    LET passes == count \div 2
        breaks == {k \in 0..(Min(passes, len) - 1) :
                      \/ utf16_unit(enc, src, k) = 0
                      \/ Len(utf8_concat(enc, src, 0, k + 1)) >= len}
        n == IF breaks = {} THEN passes
             ELSE CHOOSE k \in breaks : \A j \in breaks : k <= j
    IN  utf8_concat(enc, src, 0, n)

blkid_probe_set_utf8label(p, label, len, enc) ==
    Bind(IF "LABEL_RAW" \in p.probreq
         THEN blkid_probe_set_value(p, "LABEL_RAW", label, len)
         ELSE [pr |-> p, rc |-> 0], LAMBDA raw :
        IF raw.rc < 0 THEN [pr |-> raw.pr, rc |-> -1]
        ELSE IF ~("LABEL" \in raw.pr.probreq) THEN [pr |-> raw.pr, rc |-> 0]
        ELSE Bind(blkid_probe_assign_value(raw.pr, "LABEL"), LAMBDA a :
                 IF a.slot = -1 THEN [pr |-> a.pr, rc |-> -1]
                 ELSE LET out == encode_to_utf8(enc, BLKID_PROBVAL_BUFSIZ, label, len)
                      IN  [pr |-> [a.pr EXCEPT !.vals[a.slot].data = out,
                                               !.vals[a.slot].len = Len(out)],
                           rc |-> 0]))

uuid_is_empty(buf, len) == \A i \in 1..len : buf[i] = 0

\* the "convert to lower case" loop of blkid_probe_sprintf_uuid over the
\* slot at index k = pr->nvals
lowercase_slot(p, k) ==
    IF k >= BLKID_PROBVAL_NVALS THEN [p EXCEPT !.ub = "oob"]
    ELSE [p EXCEPT !.vals[k].data =
             [i \in 1..Len(p.vals[k].data) |->
                 IF i <= p.vals[k].len /\ p.vals[k].data[i] >= 65
                    /\ p.vals[k].data[i] <= 70
                 THEN (p.vals[k].data[i] - 65) + 97
                 ELSE p.vals[k].data[i]]]

\* with the format "%s", ap[1] is the string str points to (the empty
\* string also for a null str: "str && *str")
blkid_probe_sprintf_uuid(p, uuid, len, fmt, ap) ==
    LET len1 == IF len > BLKID_PROBVAL_BUFSIZ THEN BLKID_PROBVAL_BUFSIZ ELSE len
    IN  IF uuid_is_empty(uuid, len1) THEN [pr |-> p, rc |-> 0]
        ELSE
        Bind(IF "UUID_RAW" \in p.probreq
             THEN blkid_probe_set_value(p, "UUID_RAW", uuid, len1)
             ELSE [pr |-> p, rc |-> 0], LAMBDA raw :
            IF raw.rc < 0 THEN [pr |-> raw.pr, rc |-> -1]
            ELSE IF ~("UUID" \in raw.pr.probreq) THEN [pr |-> raw.pr, rc |-> 0]
            ELSE
            Bind(IF fmt = <<"%s">>
                 THEN IF ap[1] # <<>>
                      THEN Bind(blkid_probe_assign_value(raw.pr, "UUID"), LAMBDA a :
                               IF a.slot = -1 THEN [pr |-> a.pr, rc |-> -1]
                               ELSE LET data == Take(ap[1], BLKID_PROBVAL_BUFSIZ - 1)
                                    IN  [pr |-> [a.pr EXCEPT
                                                    !.vals[a.slot].data = data,
                                                    !.vals[a.slot].len = strlen(data)],
                                         rc |-> 0])
                      ELSE [pr |-> raw.pr, rc |-> -1]
                 ELSE blkid_probe_vsprintf_value(raw.pr, "UUID", fmt, ap), LAMBDA r :
                IF r.rc = 0
                THEN [pr |-> lowercase_slot(r.pr, r.pr.nvals), rc |-> 0]
                ELSE r))

\* uuid_unparse(), or the snprintf() of the build without libuuid: the 36
\* characters of the DCE form
uuid_unparse(uuid) ==
    vformat(<<"%02x", "%02x", "%02x", "%02x", "-", "%02x", "%02x", "-",
              "%02x", "%02x", "-", "%02x", "%02x", "-",
              "%02x", "%02x", "%02x", "%02x", "%02x", "%02x">>, uuid, 1, 1)

\* name = NULL: the default names UUID_RAW and UUID.  The slot pointer is
\* used unchecked.
blkid_probe_set_uuid_as(p, uuid, name) ==
    IF uuid_is_empty(uuid, 16) THEN [pr |-> p, rc |-> 0]
    ELSE
    Bind(IF name = NULL /\ "UUID_RAW" \in p.probreq
         THEN blkid_probe_set_value(p, "UUID_RAW", uuid, 16)
         ELSE [pr |-> p, rc |-> 0], LAMBDA raw :
        IF raw.rc < 0 THEN [pr |-> raw.pr, rc |-> -1]
        ELSE IF name = NULL /\ ~("UUID" \in raw.pr.probreq)
        THEN [pr |-> raw.pr, rc |-> 0]
        ELSE Bind(blkid_probe_assign_value(
                      raw.pr, IF name = NULL THEN "UUID" ELSE name), LAMBDA a :
                 IF a.slot = -1
                 THEN [pr |-> [a.pr EXCEPT !.ub = "null_deref"], rc |-> 0]
                 ELSE [pr |-> [a.pr EXCEPT
                                  !.vals[a.slot].data = uuid_unparse(uuid) \o <<0>>,
                                  !.vals[a.slot].len = 37],
                       rc |-> 0]))

blkid_probe_set_uuid(p, uuid) == blkid_probe_set_uuid_as(p, uuid, NULL)

\* the index of the first stored tag of that name (-1: blkid_probe_lookup_value
\* returns -1)
blkid_probe_lookup_value(p, name) ==
    LET hits == {i \in 0..(p.nvals - 1) :
                    p.vals[i].name # NULL /\ p.vals[i].name = name}
    IN  IF p.nvals = 0 \/ name = NULL \/ hits = {} THEN -1
        ELSE CHOOSE i \in hits : \A j \in hits : i <= j

blkid_probe_has_value(p, name) == blkid_probe_lookup_value(p, name) # -1

\* ------------------------------------------------------------------------
\* The prober registry.  The descriptors themselves (probers/*.c) are
\* plug-ins outside src/: these are representative ones, in the order of
\* idinfos[], written to the plug-in contract.
\*
\*   magics     the magic table (has_magics = FALSE: id->magics is NULL)
\*   probefunc  "NULL", or what the probe function does:
\*              emits   emitter calls made before the superblock is checked
\*              where   "none": no further check; "abs": the check bytes lie
\*                      at check_off; "md": in the last 64 KiB-aligned
\*                      64 KiB of the device (pr->size)
\*              late    emitter calls made after the check passed
\* ------------------------------------------------------------------------
Mag(magic, kboff, sboff) ==
    [magic |-> magic, len |-> Len(magic), kboff |-> kboff, sboff |-> sboff]

EmitValue(name, data) == [fn |-> "set_value", name |-> name, str |-> data]
EmitVersion(version) == [fn |-> "set_version", name |-> "VERSION", str |-> version]

\* emitter calls on len bytes of the superblock at device offset off
EmitLabel(off, len) ==
    [fn |-> "set_label", name |-> "LABEL", off |-> off, len |-> len]
EmitUuidAs(off, name) ==
    [fn |-> "set_uuid_as", name |-> name, off |-> off, len |-> 16]
EmitSprintfVersion(fmt, ap) ==
    [fn |-> "sprintf_version", name |-> "VERSION", fmt |-> fmt, ap |-> ap]

\* n times the same call
Times(n, call) == [k \in 1..n |-> call]

ProbeFn(emits, where, check_off, check_len, check_at, expect, late) ==
    [emits |-> emits, where |-> where, check_off |-> check_off,
     check_len |-> check_len, check_at |-> check_at, expect |-> expect,
     late |-> late]

Accept(late) == ProbeFn(<<>>, "none", 0, 0, 0, <<>>, late)

linuxraid_idinfo ==
    [name |-> "linux_raid_member", usage |-> {"RAID"},
     has_magics |-> FALSE, magics |-> <<>>,
     has_probefunc |-> TRUE,
     probefunc |-> ProbeFn(<<>>, "md", 0, 512, 0, <<252, 78, 43, 169>>, <<>>)]

lvm2_idinfo ==
    [name |-> "LVM2_member", usage |-> {"RAID"},
     has_magics |-> TRUE,
     magics |-> <<Mag(CStr("LVM2 001"), 0, 536), Mag(CStr("LVM2 001"), 0, 24),
                  Mag(CStr("LVM2 001"), 1, 24)>>,
     has_probefunc |-> TRUE,
     probefunc |-> Accept(<<EmitVersion("LVM2 001")>>)]

vfat_idinfo ==
    [name |-> "vfat", usage |-> {"FILESYSTEM"},
     has_magics |-> TRUE,
     magics |-> <<Mag(<<85, 170>>, 0, 510)>>,
     has_probefunc |-> TRUE,
     probefunc |-> ProbeFn(<<EmitValue("SEC_TYPE", "msdos")>>,
                           "abs", 0, 512, 21, <<248>>, <<>>)]

swsuspend_idinfo ==
    [name |-> "swsuspend", usage |-> {"OTHER"},
     has_magics |-> TRUE,
     magics |-> <<Mag(CStr("S1SUSPEND"), 0, 4086)>>,
     has_probefunc |-> FALSE,
     probefunc |-> Accept(<<>>)]

xfs_idinfo ==
    [name |-> "xfs", usage |-> {"FILESYSTEM"},
     has_magics |-> TRUE,
     magics |-> <<Mag(CStr("XFSB"), 0, 0)>>,
     has_probefunc |-> TRUE,
     probefunc |-> Accept(<<>>)]

iso9660_idinfo ==
    [name |-> "iso9660", usage |-> {"FILESYSTEM"},
     has_magics |-> TRUE,
     magics |-> <<Mag(CStr("CD001"), 32, 1)>>,
     has_probefunc |-> TRUE,
     probefunc |-> Accept(<<>>)]

\* label, UUID, journal UUID and revision of the superblock at 1024
ext2_idinfo ==
    [name |-> "ext2", usage |-> {"FILESYSTEM"},
     has_magics |-> TRUE,
     magics |-> <<Mag(<<83, 239>>, 1, 56)>>,
     has_probefunc |-> TRUE,
     probefunc |-> Accept(<<EmitLabel(1024 + 120, 16),
                            EmitUuidAs(1024 + 104, NULL),
                            EmitUuidAs(1024 + 208, "EXT_JOURNAL"),
                            EmitSprintfVersion(<<"%u", ".", "%u">>, <<1, 0>>)>>)]

\* a prober that emits many tags of its own
oracleasm_idinfo ==
    [name |-> "oracleasm", usage |-> {"FILESYSTEM"},
     has_magics |-> TRUE,
     magics |-> <<Mag(CStr("ORCLDISK"), 0, 32)>>,
     has_probefunc |-> TRUE,
     probefunc |-> Accept(Times(BLKID_PROBVAL_NVALS - 1,
                                EmitValue("SEC_TYPE", "msdos")))]

reiser_idinfo ==
    [name |-> "reiserfs", usage |-> {"FILESYSTEM"},
     has_magics |-> TRUE,
     magics |-> <<Mag(CStr("ReIsEr2Fs"), 64, 52)>>,
     has_probefunc |-> TRUE,
     probefunc |-> Accept(<<EmitVersion("3.6")>>)]

\* a prober with a second magic far behind the start of the device, where
\* the anchor of the volume is looked for
udf_idinfo ==
    [name |-> "udf", usage |-> {"FILESYSTEM"},
     has_magics |-> TRUE,
     magics |-> <<Mag(CStr("BEA01"), 32, 1), Mag(<<2, 0>>, 512, 0)>>,
     has_probefunc |-> TRUE,
     probefunc |-> Accept(<<>>)]

\* a second prober whose magic lies in the KiB at 64 KiB
gfs_idinfo ==
    [name |-> "gfs", usage |-> {"FILESYSTEM"},
     has_magics |-> TRUE,
     magics |-> <<Mag(<<1, 22, 25, 112>>, 64, 0)>>,
     has_probefunc |-> TRUE,
     probefunc |-> Accept(<<>>)]

\* idinfos[i] for i in 0..ARRAY_SIZE(idinfos)-1
idinfos ==
    [i \in 0..10 |->
        CASE i = 0 -> linuxraid_idinfo
          [] i = 1 -> lvm2_idinfo
          [] i = 2 -> vfat_idinfo
          [] i = 3 -> swsuspend_idinfo
          [] i = 4 -> xfs_idinfo
          [] i = 5 -> ext2_idinfo
          [] i = 6 -> reiser_idinfo
          [] i = 7 -> udf_idinfo
          [] i = 8 -> iso9660_idinfo
          [] i = 9 -> gfs_idinfo
          [] i = 10 -> oracleasm_idinfo]

ARRAY_SIZE_idinfos == Cardinality(DOMAIN idinfos)

BLKID_FLTR_ITEMS == ARRAY_SIZE_idinfos

\* blkid_bmp_size(BLKID_FLTR_ITEMS): the number of words of the bitmap
BLKID_FLTR_SIZE == (BLKID_FLTR_ITEMS + blkid_bmp_wordsize) \div blkid_bmp_wordsize

\* ------------------------------------------------------------------------
\* The filter bitmap.  A filter operation returns the session after the
\* call and its return code; calloc() is taken to succeed.
\* ------------------------------------------------------------------------
blkid_bmp_set_item(bmp, item) == bmp \cup {item}

blkid_bmp_get_item(bmp, item) == item \in bmp

\* the bit positions of the words 0..BLKID_FLTR_SIZE-1
FltrBits == 0..(BLKID_FLTR_SIZE * blkid_bmp_wordsize - 1)

blkid_probe_reset_filter(p) ==
    [pr |-> [p EXCEPT !.fltr = {}, !.idx = 0], rc |-> 0]

\* the bitmap after the loop of blkid_probe_filter_types over i..
RECURSIVE filter_types_loop(_, _, _, _)
filter_types_loop(bmp, i, flag, names) ==
    IF i >= ARRAY_SIZE_idinfos THEN bmp
    ELSE LET has == \E k \in 1..Len(names) : idinfos[i].name = names[k]
             bmp1 == IF "ONLYIN" \in flag
                     THEN (IF ~has THEN blkid_bmp_set_item(bmp, i) ELSE bmp)
                     ELSE IF "NOTIN" \in flag
                     THEN (IF has THEN blkid_bmp_set_item(bmp, i) ELSE bmp)
                     ELSE bmp
         IN  filter_types_loop(bmp1, i + 1, flag, names)

\* a by-name filter that adds to the bitmap installed before
blkid_probe_filter_types_no_reset(p, flag, names_null, names) ==
    IF names_null THEN [pr |-> p, rc |-> -1]
    ELSE LET p1 == [p EXCEPT !.fltr_null = FALSE]
         IN  [pr |-> [p1 EXCEPT !.fltr = filter_types_loop(p1.fltr, 0, flag, names),
                                !.idx = 0],
              rc |-> 0]

\* flag: the set of BLKID_FLTR_* bits given; names: the NULL-terminated
\* array as a sequence (names_null: the array pointer itself is NULL)
blkid_probe_filter_types(p, flag, names_null, names) ==
    IF names_null THEN [pr |-> p, rc |-> -1]
    ELSE LET p1 == IF p.fltr_null
                   THEN [p EXCEPT !.fltr_null = FALSE, !.fltr = {}]
                   ELSE blkid_probe_reset_filter(p).pr
         IN  [pr |-> [p1 EXCEPT !.fltr = filter_types_loop(p1.fltr, 0, flag, names),
                                !.idx = 0],
              rc |-> 0]

RECURSIVE filter_usage_loop(_, _, _, _)
filter_usage_loop(bmp, i, flag, usage) ==
    IF i >= ARRAY_SIZE_idinfos THEN bmp
    ELSE LET bmp1 == IF idinfos[i].usage \cap usage # {}
                     THEN (IF "NOTIN" \in flag THEN blkid_bmp_set_item(bmp, i) ELSE bmp)
                     ELSE IF "ONLYIN" \in flag THEN blkid_bmp_set_item(bmp, i)
                     ELSE bmp
         IN  filter_usage_loop(bmp1, i + 1, flag, usage)

blkid_probe_filter_usage(p, flag, usage) ==
    IF usage = {} THEN [pr |-> p, rc |-> -1]
    ELSE LET p1 == IF p.fltr_null
                   THEN [p EXCEPT !.fltr_null = FALSE, !.fltr = {}]
                   ELSE blkid_probe_reset_filter(p).pr
         IN  [pr |-> [p1 EXCEPT !.fltr = filter_usage_loop(p1.fltr, 0, flag, usage),
                                !.idx = 0],
              rc |-> 0]

\* an inversion with a logical instead of a bitwise not of each word
blkid_probe_invert_filter_logical_not(p) ==
    IF p.fltr_null THEN [pr |-> p, rc |-> -1]
    ELSE [pr |-> [p EXCEPT !.fltr = IF p.fltr = {} THEN {0} ELSE {}, !.idx = 0],
          rc |-> 0]

\* an inversion that leaves the cursor where it was
blkid_probe_invert_filter_keeps_idx(p) ==
    IF p.fltr_null THEN [pr |-> p, rc |-> -1]
    ELSE [pr |-> [p EXCEPT !.fltr = FltrBits \ p.fltr], rc |-> 0]

blkid_probe_invert_filter(p) ==
    IF p.fltr_null THEN [pr |-> p, rc |-> -1]
    ELSE [pr |-> [p EXCEPT !.fltr = FltrBits \ p.fltr, !.idx = 0], rc |-> 0]

blkid_probe_set_request(p, flags) ==
    [pr |-> [p EXCEPT !.probreq = flags], rc |-> 0]

\* a bind that leaves the cursor where it was
blkid_probe_set_device_keeps_idx(p, fd, off, size) ==
    LET p1 == blkid_reset_probe(p)
        p2 == [p1 EXCEPT !.fd = fd, !.off = off,
                         !.size = IF size = 0 THEN blkdev_get_size(fd) ELSE size]
    IN  Bind(blkid_probe_get_buffer(p2, 0, 512), LAMBDA g :
            IF g.ret.null THEN [pr |-> g.pr, rc |-> -1]
            ELSE [pr |-> g.pr, rc |-> 0])

\* a bind that is content with one readable byte at the origin
blkid_probe_set_device_any_byte(p, fd, off, size) ==
    LET p1 == blkid_reset_probe(p)
        p2 == [p1 EXCEPT !.fd = fd, !.off = off,
                         !.size = IF size = 0 THEN blkdev_get_size(fd) ELSE size]
    IN  Bind(blkid_probe_get_buffer(p2, 0, 1), LAMBDA g :
            IF g.ret.null THEN [pr |-> g.pr, rc |-> -1]
            ELSE [pr |-> [g.pr EXCEPT !.idx = 0], rc |-> 0])

blkid_probe_set_device(p, fd, off, size) ==
    LET p1 == blkid_reset_probe(p)
        p2 == [p1 EXCEPT !.fd = fd, !.off = off,
                         !.size = IF size = 0 THEN blkdev_get_size(fd) ELSE size]
    IN  Bind(blkid_probe_get_buffer(p2, 0, 512), LAMBDA g :
            IF g.ret.null THEN [pr |-> g.pr, rc |-> -1]
            ELSE [pr |-> [g.pr EXCEPT !.idx = 0], rc |-> 0])

\* ------------------------------------------------------------------------
\* The probe functions of the registry's descriptors.
\* ------------------------------------------------------------------------
Emit(p, call) ==
    IF call.fn = "set_value"
    THEN blkid_probe_set_value(p, call.name, CStrZ(call.str), Len(CStr(call.str)) + 1)
    ELSE IF call.fn = "set_version"
    THEN blkid_probe_set_version(p, call.str)
    ELSE IF call.fn = "sprintf_version"
    THEN blkid_probe_sprintf_version(p, call.fmt, call.ap)
    ELSE Bind(blkid_probe_get_buffer(p, call.off, call.len), LAMBDA g :
             IF g.ret.null THEN [pr |-> g.pr, rc |-> -1]
             ELSE IF call.fn = "set_label"
             THEN blkid_probe_set_label(g.pr, PtrBytes(g.pr, g.ret, 0, call.len),
                                        call.len)
             ELSE blkid_probe_set_uuid_as(g.pr, PtrBytes(g.pr, g.ret, 0, call.len),
                                          call.name))

\* the calls calls[k..] in turn, stopping at the first that fails
RECURSIVE run_emits(_, _, _)
run_emits(p, calls, k) ==
    IF k > Len(calls) THEN [pr |-> p, rc |-> 0]
    ELSE Bind(Emit(p, calls[k]), LAMBDA e :
             IF e.rc # 0 THEN [pr |-> e.pr, rc |-> -1]
             ELSE run_emits(e.pr, calls, k + 1))

\* where the probe function looks for its check bytes (-1: nowhere)
check_offset(p, f) ==
    IF f.where = "md" THEN (p.size - (p.size % 65536)) - 65536 ELSE f.check_off

\* id->probefunc(pr, mag): the session after the call and its return code
probefunc(p, id) ==
    LET f == id.probefunc
    IN  Bind(run_emits(p, f.emits, 1), LAMBDA e1 :
            IF e1.rc # 0 THEN [pr |-> e1.pr, rc |-> -1]
            ELSE IF f.where = "none" THEN run_emits(e1.pr, f.late, 1)
            ELSE IF check_offset(e1.pr, f) < 0 THEN [pr |-> e1.pr, rc |-> -1]
            ELSE Bind(blkid_probe_get_buffer(e1.pr, check_offset(e1.pr, f),
                                             f.check_len), LAMBDA g :
                     IF g.ret.null THEN [pr |-> g.pr, rc |-> -1]
                     ELSE IF PtrBytes(g.pr, g.ret, f.check_at, Len(f.expect))
                             # f.expect
                     THEN [pr |-> g.pr, rc |-> 1]
                     ELSE run_emits(g.pr, f.late, 1)))

\* ------------------------------------------------------------------------
\* The dispatch loop.
\* ------------------------------------------------------------------------

\* while (mag && mag->magic) over mags[k..]: the session after the buffer
\* requests and the index of the magic that matched (0: none did)
RECURSIVE magic_scan(_, _, _)
magic_scan(p, mags, k) ==
    IF k > Len(mags) THEN [pr |-> p, mag |-> 0]
    ELSE LET mag == mags[k]
             idx == mag.kboff + (mag.sboff \div 1024)
         IN  Bind(blkid_probe_get_buffer(p, idx * 1024, 1024), LAMBDA g :
                 IF ~g.ret.null
                    /\ PtrBytes(g.pr, g.ret, mag.sboff % 1024, mag.len) = mag.magic
                 THEN [pr |-> g.pr, mag |-> k]
                 ELSE magic_scan(g.pr, mags, k + 1))

\* the index the for loop of blkid_do_probe starts at: "i = pr->idx + 1"
\* is overwritten by the loop's own initialiser "i = 0"
do_probe_start(p) == 0

\* pr->fltr && blkid_bmp_get_item(pr->fltr, i): prober i is skipped
filtered(p, i) == ~p.fltr_null /\ blkid_bmp_get_item(p.fltr, i)

\* the body of the for loop from index i on
RECURSIVE do_probe_loop(_, _)
do_probe_loop(p, i) ==
    IF i >= ARRAY_SIZE_idinfos THEN [pr |-> p, rc |-> 1]
    ELSE
        LET id == idinfos[i] IN
        Bind([p EXCEPT !.idx = i], LAMBDA p1 :
            IF filtered(p1, i)
            THEN do_probe_loop(p1, i + 1)
            ELSE
                Bind(IF id.has_magics THEN magic_scan(p1, id.magics, 1)
                     ELSE [pr |-> p1, mag |-> 0], LAMBDA m :
                    IF id.has_magics /\ m.mag = 0
                    THEN do_probe_loop(m.pr, i + 1)
                    ELSE
                        Bind(IF id.has_probefunc THEN probefunc(m.pr, id)
                             ELSE [pr |-> m.pr, rc |-> 0], LAMBDA r :
                            IF r.rc # 0 THEN do_probe_loop(r.pr, i + 1)
                            ELSE
                                Bind(IF "TYPE" \in r.pr.probreq
                                     THEN blkid_probe_set_value(
                                              r.pr, "TYPE", CStrZ(id.name),
                                              Len(CStr(id.name)) + 1).pr
                                     ELSE r.pr, LAMBDA t :
                                    [pr |-> IF "USAGE" \in t.probreq
                                            THEN blkid_probe_set_usage(t, id.usage).pr
                                            ELSE t,
                                     rc |-> 0]))))

blkid_do_probe(p) ==
    Bind(blkid_probe_reset_vals(p), LAMBDA p0 :
        do_probe_loop(p0, do_probe_start(p)))

\* ------------------------------------------------------------------------
\* The state machine: one session driven through the library's API.
\*
\*   pr      the session
\*   last    the last call: its name, return code and arguments, and the
\*           cursor (idx0) it found
\*   f_base  the filter bitmap as the last reset/by-name/by-usage call left
\*           it, n_inv the number of successful inversions since
\*   n_exh   the number of calls of blkid_do_probe that returned 1 since
\*           the cursor was last reset by a filter call or a bind
\*   emit    the last direct call of a value emitter or of
\*           blkid_probe_get_buffer: its arguments, what it returned and the
\*           tag count it found (nvals0)
\*   n_emit  the number of such calls made
\* ------------------------------------------------------------------------
VARIABLES pr, last, f_base, n_inv, n_exh, emit, n_emit

vars == <<pr, last, f_base, n_inv, n_exh, emit, n_emit>>

\* bounds of the history counters
MaxInverts == 2
MaxExhausted == 2

\* the arguments the calls are tried with
BindArgs ==
    {<<1, 0, 0>>, <<2, 0, 0>>, <<2, 512, 0>>, <<3, 0, 0>>, <<4, 0, 0>>,
     <<5, 0, 0>>, <<6, 0, 0>>, <<7, 0, 0>>, <<7, 0, 1000>>, <<8, 0, 0>>,
     <<13, 65536, 0>>, <<14, 65536, 0>>}

RequestArgs == {{}, {"TYPE", "USAGE", "VERSION"}}

FlagArgs == {{"ONLYIN"}, {"NOTIN"}}

NamesArgs ==
    {<<>>, <<"xfs">>, <<"vfat", "nosuchfs", "LVM2_member">>}

UsageArgs == {{}, {"RAID"}, {"FILESYSTEM", "OTHER"}}

Call(op, rc, flag, names, usage) ==
    [op |-> op, rc |-> rc, flag |-> flag, names |-> names, usage |-> usage,
     idx0 |-> pr.idx]

Init ==
    /\ pr = blkid_new_probe
    /\ last = [op |-> "new_probe", rc |-> 0, flag |-> {}, names |-> <<>>,
               usage |-> {}, idx0 |-> 0]
    /\ f_base = {}
    /\ n_inv = 0
    /\ n_exh = 0
    /\ emit = [fn |-> "none"]
    /\ n_emit = 0

\* calls are made on a session that exists: a call on a released one is a
\* use after free
Live == pr.live

\* what a call that returned r leaves in the history of the cursor
CursorReset(r) ==
    /\ n_exh' = IF r.rc = 0 THEN 0 ELSE n_exh

FilterInstalled(r) ==
    /\ f_base' = IF r.rc = 0 THEN r.pr.fltr ELSE f_base
    /\ n_inv' = IF r.rc = 0 THEN 0 ELSE n_inv

SetDeviceCall(a) ==
    LET r == blkid_probe_set_device(pr, a[1], a[2], a[3]) IN
    /\ Live
    /\ pr' = r.pr
    /\ last' = Call("set_device", r.rc, {}, <<>>, {})
    /\ CursorReset(r)
    /\ UNCHANGED <<f_base, n_inv, emit, n_emit>>

SetDevice == \E a \in BindArgs : SetDeviceCall(a)

ResetProbe ==
    /\ Live
    /\ pr' = blkid_reset_probe(pr)
    /\ last' = Call("reset_probe", 0, {}, <<>>, {})
    /\ UNCHANGED <<f_base, n_inv, n_exh, emit, n_emit>>

SetRequestCall(flags) ==
    LET r == blkid_probe_set_request(pr, flags) IN
    /\ Live
    /\ pr' = r.pr
    /\ last' = Call("set_request", r.rc, {}, <<>>, {})
    /\ UNCHANGED <<f_base, n_inv, n_exh, emit, n_emit>>

SetRequest == \E flags \in RequestArgs : SetRequestCall(flags)

ResetFilter ==
    LET r == blkid_probe_reset_filter(pr) IN
    /\ Live
    /\ pr' = r.pr
    /\ last' = Call("reset_filter", r.rc, {}, <<>>, {})
    /\ CursorReset(r)
    /\ FilterInstalled(r)
    /\ UNCHANGED <<emit, n_emit>>

FilterTypesCall(flag, names) ==
    LET r == blkid_probe_filter_types(pr, flag, FALSE, names) IN
    /\ Live
    /\ pr' = r.pr
    /\ last' = Call("filter_types", r.rc, flag, names, {})
    /\ CursorReset(r)
    /\ FilterInstalled(r)
    /\ UNCHANGED <<emit, n_emit>>

FilterTypes ==
    \E flag \in FlagArgs, names \in NamesArgs : FilterTypesCall(flag, names)

FilterUsage ==
    \E flag \in FlagArgs, usage \in UsageArgs :
        LET r == blkid_probe_filter_usage(pr, flag, usage) IN
        /\ Live
        /\ pr' = r.pr
        /\ last' = Call("filter_usage", r.rc, flag, <<>>, usage)
        /\ CursorReset(r)
        /\ FilterInstalled(r)
        /\ UNCHANGED <<emit, n_emit>>

InvertFilter ==
    LET r == blkid_probe_invert_filter(pr) IN
    /\ Live
    /\ r.rc = 0 => n_inv < MaxInverts
    /\ pr' = r.pr
    /\ last' = Call("invert_filter", r.rc, {}, <<>>, {})
    /\ CursorReset(r)
    /\ n_inv' = IF r.rc = 0 THEN n_inv + 1 ELSE n_inv
    /\ UNCHANGED <<f_base, emit, n_emit>>

DoProbe ==
    LET r == blkid_do_probe(pr) IN
    /\ Live
    /\ r.rc = 1 => n_exh < MaxExhausted
    /\ pr' = r.pr
    /\ last' = Call("do_probe", r.rc, {}, <<>>, {})
    /\ n_exh' = IF r.rc = 1 THEN n_exh + 1 ELSE n_exh
    /\ UNCHANGED <<f_base, n_inv, emit, n_emit>>

\* the filter is released with the session, and its history with it
FreeProbe ==
    /\ Live
    /\ pr' = blkid_free_probe(pr)
    /\ last' = Call("free_probe", 0, {}, <<>>, {})
    /\ f_base' = {}
    /\ n_inv' = 0
    /\ n_exh' = 0
    /\ UNCHANGED <<emit, n_emit>>

\* the caller allocates its next session (calloc() is taken to succeed)
NewProbe ==
    /\ ~Live
    /\ pr' = blkid_new_probe
    /\ last' = [op |-> "new_probe", rc |-> 0, flag |-> {}, names |-> <<>>,
                usage |-> {}, idx0 |-> 0]
    /\ f_base' = {}
    /\ n_inv' = 0
    /\ n_exh' = 0
    /\ emit' = [fn |-> "none"]
    /\ n_emit' = 0

Next ==
    \/ NewProbe
    \/ FreeProbe
    \/ SetDevice
    \/ ResetProbe
    \/ SetRequest
    \/ ResetFilter
    \/ FilterTypes
    \/ FilterUsage
    \/ InvertFilter
    \/ DoProbe

Spec == Init /\ [][Next]_vars

\* ------------------------------------------------------------------------
\* Probing with the whole request mask: images whose probers call the
\* typed emitters, and devices that end inside a magic window.
\* ------------------------------------------------------------------------
BLKID_PROBREQ_ALL ==
    {"LABEL", "LABEL_RAW", "UUID", "UUID_RAW", "TYPE", "USAGE", "VERSION"}

ProbeBindArgs ==
    {<<3, 0, 0>>, <<6, 0, 0>>, <<9, 0, 0>>, <<10, 0, 0>>, <<11, 0, 0>>,
     <<12, 0, 0>>, <<13, 65536, 0>>, <<15, 0, 0>>}

ProbeRequestArgs == {{}, BLKID_PROBREQ_ALL, {"TYPE", "USAGE"}}

ProbeNamesArgs == {<<"ext2">>, <<"iso9660", "oracleasm">>}

ProbeSetDevice == \E a \in ProbeBindArgs : SetDeviceCall(a)

ProbeSetRequest == \E flags \in ProbeRequestArgs : SetRequestCall(flags)

ProbeFilterTypes ==
    \E flag \in FlagArgs, names \in ProbeNamesArgs : FilterTypesCall(flag, names)

ProbeNext ==
    \/ NewProbe
    \/ FreeProbe
    \/ ProbeSetDevice
    \/ ProbeSetRequest
    \/ ProbeFilterTypes
    \/ DoProbe

ProbeSpec == Init /\ [][ProbeNext]_vars

\* ------------------------------------------------------------------------
\* The value emitters called directly, as a probe function calls them, on
\* sessions whose request mask is set and whose tag store already holds
\* some tags (each stored by blkid_probe_set_value).
\* ------------------------------------------------------------------------
MaxEmits == 2

\* n bytes b
Rep(n, b) == [k \in 1..n |-> b]

RECURSIVE Filled(_, _)
Filled(p, n) ==
    IF n = 0 THEN p
    ELSE Filled(blkid_probe_set_value(p, "SEC_TYPE", CStrZ("msdos"), 6).pr, n - 1)

EmitRequestArgs ==
    {{}, BLKID_PROBREQ_ALL, {"LABEL", "UUID", "VERSION"}, {"LABEL_RAW", "UUID_RAW"}}

FillArgs == {0, BLKID_PROBVAL_NVALS - 2, BLKID_PROBVAL_NVALS - 1, BLKID_PROBVAL_NVALS}

\* "ROOT   \0"; four blanks; "AB\0CD  "; "a" and one of each white space;
\* 256 times "X"; 250 times "Y" and 50 blanks
LabelArgs ==
    {[data |-> <<82, 79, 79, 84, 32, 32, 32, 0>>, len |-> 8],
     [data |-> Rep(4, 32), len |-> 4],
     [data |-> <<65, 66, 0, 67, 68, 32, 32>>, len |-> 7],
     [data |-> <<97, 9, 10, 11, 12, 13, 32>>, len |-> 7],
     [data |-> Rep(BLKID_PROBVAL_BUFSIZ, 88), len |-> BLKID_PROBVAL_BUFSIZ],
     [data |-> Rep(250, 89) \o Rep(50, 32), len |-> 300]}

\* "Hi" and a NUL in UTF-16LE; U+00E9 U+20AC "A" in UTF-16BE; 200 times
\* U+20AC in UTF-16BE
Utf8LabelArgs ==
    {[data |-> <<72, 0, 105, 0, 0, 0>>, len |-> 6, enc |-> "UTF16LE"],
     [data |-> <<0, 233, 32, 172, 0, 65>>, len |-> 6, enc |-> "UTF16BE"],
     [data |-> [k \in 1..400 |-> IF k % 2 = 1 THEN 32 ELSE 172], len |-> 400,
      enc |-> "UTF16BE"]}

UuidArgs ==
    {Rep(16, 0),
     <<171, 205, 239, 1, 35, 69, 103, 137, 10, 188, 222, 240, 18, 52, 86, 120>>}

UuidNameArgs == {"EXT_JOURNAL"}

\* "%02X%02X-%02X%02X" and "%02x%02x-%02x%02x" of the bytes; "%s" of
\* "AB12-cdEF", of "" and of the zero bytes
SprintfUuidArgs ==
    {[uuid |-> <<18, 52, 171, 205>>, len |-> 4,
      fmt |-> <<"%02X", "%02X", "-", "%02X", "%02X">>, ap |-> <<18, 52, 171, 205>>],
     [uuid |-> <<18, 52, 171, 205>>, len |-> 4,
      fmt |-> <<"%02x", "%02x", "-", "%02x", "%02x">>, ap |-> <<18, 52, 171, 205>>],
     [uuid |-> <<1, 2, 3, 4>>, len |-> 4,
      fmt |-> <<"%s">>, ap |-> << <<65, 66, 49, 50, 45, 99, 100, 69, 70>> >>],
     [uuid |-> <<1, 2, 3, 4>>, len |-> 4, fmt |-> <<"%s">>, ap |-> << <<>> >>],
     [uuid |-> Rep(4, 0), len |-> 4, fmt |-> <<"%s">>, ap |-> << <<49>> >>]}

\* "%u.%u" of 1, 0; "%s" of 300 times "v"; "%s" of ""
SprintfVersionArgs ==
    {[fmt |-> <<"%u", ".", "%u">>, ap |-> <<1, 0>>],
     [fmt |-> <<"%s">>, ap |-> <<Rep(300, 118)>>],
     [fmt |-> <<"%s">>, ap |-> << <<>> >>]}

\* blkid_probe_vsprintf_value called with a name of the caller's choice; it
\* looks at no request flag
VsprintfValueArgs ==
    {[name |-> "VERSION", fmt |-> <<"%u", ".", "%u">>, ap |-> <<1, 0>>],
     [name |-> "LABEL", fmt |-> <<"%s">>, ap |-> << <<65, 66>> >>],
     [name |-> "LABEL", fmt |-> <<"%s">>, ap |-> <<Rep(300, 118)>>],
     [name |-> "VERSION", fmt |-> <<"%s">>, ap |-> << <<>> >>],
     [name |-> NULL, fmt |-> <<"%u">>, ap |-> <<1>>]}

SetValueArgs ==
    {[name |-> "SEC_TYPE", data |-> CStrZ("msdos"), len |-> 6],
     [name |-> "SEC_TYPE", data |-> Rep(300, 90), len |-> 300],
     [name |-> NULL, data |-> CStrZ("msdos"), len |-> 6]}

VersionArgs == {"3.6"}

EmitInit ==
    /\ pr \in {Filled(blkid_probe_set_request(blkid_new_probe, m).pr, n) :
                  m \in EmitRequestArgs, n \in FillArgs}
    /\ last = [op |-> "new_probe", rc |-> 0, flag |-> {}, names |-> <<>>,
               usage |-> {}, idx0 |-> 0]
    /\ f_base = {}
    /\ n_inv = 0
    /\ n_exh = 0
    /\ emit = [fn |-> "none"]
    /\ n_emit = 0

\* the outcomes of the process that has run into undefined behaviour u: the
\* lower-case loop behind vals[] finds a length of 0 there and stores
\* nothing ("oob_read"), or it stores into the memory behind the session
\* ("oob_write")
UbOutcomes(u) == IF u = "oob" THEN {"oob_read", "oob_write"} ELSE {u}

\* the call fn(name, data, len, fmt, ap) has returned r
Emitted(fn, r, name, data, len, fmt, ap) ==
    /\ \E u \in UbOutcomes(r.pr.ub) : pr' = [r.pr EXCEPT !.ub = u]
    /\ emit' = [fn |-> fn, rc |-> r.rc, name |-> name, data |-> data,
                len |-> len, fmt |-> fmt, ap |-> ap,
                nvals0 |-> pr.nvals, vals0 |-> pr.vals]
    /\ n_emit' = n_emit + 1
    /\ last' = Call(fn, r.rc, {}, <<>>, {})
    /\ UNCHANGED <<f_base, n_inv, n_exh>>

\* a probe function calls on while the process lives
MayEmit == Live /\ n_emit < MaxEmits /\ pr.ub \in {"none"}

SetValue ==
    /\ MayEmit
    /\ \E a \in SetValueArgs :
           Emitted("set_value", blkid_probe_set_value(pr, a.name, a.data, a.len),
                   a.name, a.data, a.len, <<>>, <<>>)

VsprintfValue ==
    /\ MayEmit
    /\ \E a \in VsprintfValueArgs :
           Emitted("vsprintf_value",
                   blkid_probe_vsprintf_value(pr, a.name, a.fmt, a.ap),
                   a.name, <<>>, 0, a.fmt, a.ap)

SetVersion ==
    /\ MayEmit
    /\ \E v \in VersionArgs :
           Emitted("set_version", blkid_probe_set_version(pr, v),
                   NULL, CStrZ(v), 0, <<>>, <<>>)

SprintfVersion ==
    /\ MayEmit
    /\ \E a \in SprintfVersionArgs :
           Emitted("sprintf_version", blkid_probe_sprintf_version(pr, a.fmt, a.ap),
                   NULL, <<>>, 0, a.fmt, a.ap)

SetLabel ==
    /\ MayEmit
    /\ \E a \in LabelArgs :
           Emitted("set_label", blkid_probe_set_label(pr, a.data, a.len),
                   NULL, a.data, a.len, <<>>, <<>>)

SetUtf8Label ==
    /\ MayEmit
    /\ \E a \in Utf8LabelArgs :
           Emitted("set_utf8label",
                   blkid_probe_set_utf8label(pr, a.data, a.len, a.enc),
                   NULL, a.data, a.len, <<a.enc>>, <<>>)

SetUuid ==
    /\ MayEmit
    /\ \E u \in UuidArgs :
           Emitted("set_uuid", blkid_probe_set_uuid(pr, u),
                   NULL, u, 16, <<>>, <<>>)

SetUuidAs ==
    /\ MayEmit
    /\ \E u \in UuidArgs, name \in UuidNameArgs :
           Emitted("set_uuid_as", blkid_probe_set_uuid_as(pr, u, name),
                   name, u, 16, <<>>, <<>>)

SprintfUuid ==
    /\ MayEmit
    /\ \E a \in SprintfUuidArgs :
           Emitted("sprintf_uuid",
                   blkid_probe_sprintf_uuid(pr, a.uuid, a.len, a.fmt, a.ap),
                   NULL, a.uuid, a.len, a.fmt, a.ap)

EmitNext ==
    \/ SetValue
    \/ VsprintfValue
    \/ SetVersion
    \/ SprintfVersion
    \/ SetLabel
    \/ SetUtf8Label
    \/ SetUuid
    \/ SetUuidAs
    \/ SprintfUuid

EmitSpec == EmitInit /\ [][EmitNext]_vars

\* ------------------------------------------------------------------------
\* The buffer cache called directly, as a probe function calls it, on a
\* session bound to a device.
\* ------------------------------------------------------------------------
MaxReads == 3

BufBindArgs == {<<7, 0, 0>>, <<7, 1024, 0>>, <<12, 0, 0>>}

\* <<off, len>>: in the superblock buffer's range, in the general buffer's,
\* and across the end of the devices
GetBufferArgs ==
    {<<0, 512>>, <<32768, 8>>, <<64564, 16>>, <<65584, 16>>, <<65536, 1024>>,
     <<198968, 16>>, <<199992, 16>>}

BufSetDevice ==
    \E a \in BufBindArgs :
        LET r == blkid_probe_set_device(pr, a[1], a[2], a[3]) IN
        /\ Live
        /\ pr' = r.pr
        /\ last' = Call("set_device", r.rc, {}, <<>>, {})
        /\ CursorReset(r)
        /\ emit' = [fn |-> "none"]
        /\ UNCHANGED <<f_base, n_inv, n_emit>>

GetBuffer ==
    /\ Live
    /\ n_emit < MaxReads
    /\ \E a \in GetBufferArgs :
           LET g == blkid_probe_get_buffer(pr, a[1], a[2]) IN
           /\ pr' = g.pr
           /\ emit' = [fn |-> "get_buffer", off |-> a[1], len |-> a[2],
                       ret |-> g.ret]
           /\ n_emit' = n_emit + 1
           /\ last' = Call("get_buffer", IF g.ret.null THEN -1 ELSE 0, {}, <<>>, {})
           /\ UNCHANGED <<f_base, n_inv, n_exh>>

BufNext ==
    \/ BufSetDevice
    \/ GetBuffer

BufSpec == Init /\ [][BufNext]_vars

\* ------------------------------------------------------------------------
\* What a device holds, read off the device itself (not through the
\* buffer cache): the vocabulary of the properties below.
\* ------------------------------------------------------------------------
Registry == 0..(ARRAY_SIZE_idinfos - 1)

\* the bytes [off, off + len) from the origin on all lie on the device
OnDevice(p, off, len) ==
    p.off + off >= 0 /\ p.off + off + len <= Devices[p.fd].size

\* the device bytes at kboff*1024 + sboff are those of the magic
MagicBytesMatch(p, mag) ==
    /\ OnDevice(p, mag.kboff * 1024 + mag.sboff, mag.len)
    /\ DevBytes(p.fd, p.off + mag.kboff * 1024 + mag.sboff, mag.len) = mag.magic

\* the 1 KiB-aligned 1024-byte window around the magic lies on the device
MagicWindowOnDevice(p, mag) ==
    OnDevice(p, ((mag.kboff * 1024 + mag.sboff) \div 1024) * 1024, 1024)

\* the superblock prober i validates is on the device
ProbeFnAccepts(p, i) ==
    LET id == idinfos[i]
        f == id.probefunc
        o == check_offset(p, f)
    IN  \/ ~id.has_probefunc
        \/ f.where = "none"
        \/ /\ o >= 0
           /\ OnDevice(p, o, f.check_len)
           /\ DevBytes(p.fd, p.off + o + f.check_at, Len(f.expect)) = f.expect

\* prober i would accept the device: by the device bytes alone ...
AcceptsByBytes(p, i) ==
    /\ \/ ~idinfos[i].has_magics
       \/ \E k \in 1..Len(idinfos[i].magics) : MagicBytesMatch(p, idinfos[i].magics[k])
    /\ ProbeFnAccepts(p, i)

\* ... and with the whole window of the magic readable
AcceptsByWindow(p, i) ==
    /\ \/ ~idinfos[i].has_magics
       \/ \E k \in 1..Len(idinfos[i].magics) :
              /\ MagicWindowOnDevice(p, idinfos[i].magics[k])
              /\ MagicBytesMatch(p, idinfos[i].magics[k])
    /\ ProbeFnAccepts(p, i)

SetMin(S) == CHOOSE x \in S : \A y \in S : x <= y

\* the tag names the probe function of descriptor id emits itself
EmittedNames(call) ==
    IF call.fn = "set_label" THEN {"LABEL", "LABEL_RAW"}
    ELSE IF call.fn = "set_uuid_as" /\ call.name = NULL THEN {"UUID", "UUID_RAW"}
    ELSE {call.name}

OwnTags(id) ==
    IF ~id.has_probefunc THEN {}
    ELSE UNION {EmittedNames(id.probefunc.emits[k]) : k \in 1..Len(id.probefunc.emits)}
         \cup UNION {EmittedNames(id.probefunc.late[k]) : k \in 1..Len(id.probefunc.late)}

StoredNames(p) == {p.vals[k].name : k \in 0..(p.nvals - 1)}

\* ------------------------------------------------------------------------
\* C1 -- Resume semantics, as claimed: on a device that two or more
\* unfiltered probers accept, a call of blkid_do_probe that follows a call
\* that returned MATCHED, with nothing in between, never reports a prober at
\* or before the one just reported: its match lies at a strictly higher
\* registry index.
\* ------------------------------------------------------------------------
C1_ResumeStrictlyIncreasing ==
    [][(/\ last.op = "do_probe" /\ last.rc = 0
        /\ last'.op = "do_probe" /\ last'.rc = 0
        /\ Cardinality({i \in Registry : ~filtered(pr, i) /\ AcceptsByWindow(pr, i)}) >= 2)
       => pr'.idx > pr.idx]_vars

\* ------------------------------------------------------------------------
\* C2 -- First match in registry order, as claimed: a call of
\* blkid_do_probe made with the cursor at 0 returns MATCHED with the cursor
\* at the lowest index whose prober is not filtered, has one of its magics
\* in the device bytes at kboff*1024 + sboff (or declares none) and whose
\* probe function accepts; it returns EXHAUSTED exactly when there is none.
\* ------------------------------------------------------------------------
C2_FirstMatchByMagicBytes ==
    (last.op = "do_probe" /\ last.idx0 = 0) =>
        LET acc == {i \in Registry : ~filtered(pr, i) /\ AcceptsByBytes(pr, i)}
        IN  IF acc = {} THEN last.rc = 1
            ELSE last.rc = 0 /\ pr.idx = SetMin(acc)

\* C2, read in the code's favour: the same, where a magic passes the
\* pre-check only if, in addition, the whole 1 KiB-aligned 1024-byte window
\* that holds it can be read from the device (blkid_do_probe asks the buffer
\* cache for that window).
C2_FirstMatchInRegistryOrder ==
    (last.op = "do_probe" /\ last.idx0 = 0) =>
        LET acc == {i \in Registry : ~filtered(pr, i) /\ AcceptsByWindow(pr, i)}
        IN  IF acc = {} THEN last.rc = 1
            ELSE last.rc = 0 /\ pr.idx = SetMin(acc)

\* ------------------------------------------------------------------------
\* C3 -- Tags on MATCHED, as claimed: after a call of blkid_do_probe that
\* returned MATCHED every stored tag is TYPE, USAGE or a tag the probe
\* function of the matched prober emits; none comes from a prober tried
\* earlier in the call that rejected the device.
\* ------------------------------------------------------------------------
C3_OnlyTagsOfMatchedProber ==
    (last.op = "do_probe" /\ last.rc = 0) =>
        StoredNames(pr) \subseteq OwnTags(idinfos[pr.idx]) \cup {"TYPE", "USAGE"}

\* ------------------------------------------------------------------------
\* C4 -- Tag store clearing, as claimed: after a call of blkid_do_probe
\* that returned EXHAUSTED or -1, blkid_probe_numof_values() is 0.
\* ------------------------------------------------------------------------
C4_NoValuesAfterExhausted ==
    (last.op = "do_probe" /\ last.rc \in {1, -1}) =>
        blkid_probe_numof_values(pr) = 0

\* ------------------------------------------------------------------------
\* C5 -- EXHAUSTED is sticky: once blkid_do_probe has returned EXHAUSTED,
\* and until a filter call or a bind resets the cursor, every call of
\* blkid_do_probe made returned EXHAUSTED and the next one will.
\* ------------------------------------------------------------------------
C5_ExhaustedIsSticky ==
    n_exh > 0 =>
        /\ last.op = "do_probe" => last.rc = 1
        /\ blkid_do_probe(pr).rc = 1

\* ------------------------------------------------------------------------
\* The probers blkid_do_probe may run under a filter bitmap.
\* ------------------------------------------------------------------------
MayRun(p) == {i \in Registry : ~filtered(p, i)}

\* ------------------------------------------------------------------------
\* C6 -- Filter complement law: the probers that may run under an
\* installed filter F and those that may run under the inverted F are
\* disjoint and together are the whole registry; this holds of the filter
\* an odd number of inversions left, against the filter as installed.
\* ------------------------------------------------------------------------
C6_FilterComplement ==
    /\ ~pr.fltr_null =>
          LET q == blkid_probe_invert_filter(pr).pr
          IN  /\ MayRun(pr) \cap MayRun(q) = {}
              /\ MayRun(pr) \cup MayRun(q) = Registry
    /\ (~pr.fltr_null /\ n_inv % 2 = 1) =>
          LET base == [pr EXCEPT !.fltr = f_base]
          IN  /\ MayRun(pr) \cap MayRun(base) = {}
              /\ MayRun(pr) \cup MayRun(base) = Registry

\* a filter that lets some probers run and skips others was inverted
C6_Witness ==
    /\ last.op = "invert_filter" /\ last.rc = 0
    /\ n_inv = 1
    /\ MayRun(pr) # {}
    /\ MayRun(pr) # Registry

\* ------------------------------------------------------------------------
\* C7 -- Filter inversion round trip: after an even number (two) of
\* inversions of an installed filter F the same probers are skipped as
\* under F, the inversion left the cursor at 0, and the next two calls of
\* blkid_do_probe give the results they give under F.
\* ------------------------------------------------------------------------
ProbeResult(r) == <<r.rc, r.pr.idx, r.pr.nvals, r.pr.vals>>

C7_InvertTwiceIsIdentity ==
    (~pr.fltr_null /\ n_inv > 0 /\ n_inv % 2 = 0) =>
        LET base == [pr EXCEPT !.fltr = f_base]
            a1 == blkid_do_probe(pr)
            b1 == blkid_do_probe(base)
        IN  /\ MayRun(pr) = MayRun(base)
            /\ (last.op = "invert_filter" /\ last.rc = 0) => pr.idx = 0
            /\ ProbeResult(a1) = ProbeResult(b1)
            /\ ProbeResult(blkid_do_probe(a1.pr)) = ProbeResult(blkid_do_probe(b1.pr))

\* the second inversion of a filter that skips some probers, on a device
\* where a prober matches under it
C7_Witness ==
    /\ last.op = "invert_filter" /\ last.rc = 0
    /\ n_inv = 2
    /\ last.idx0 > 0
    /\ MayRun(pr) # Registry
    /\ blkid_do_probe(pr).rc = 0

\* ------------------------------------------------------------------------
\* C8 -- Filter by name: after blkid_probe_filter_types with ONLYIN a
\* prober is skipped exactly when its name is not among the names, with
\* NOTIN exactly when it is, whatever the filter was before.  And on a
\* device that LVM2_member and xfs both accept (and no prober before
\* LVM2_member does), blkid_do_probe reports LVM2_member when nothing is
\* filtered and xfs after ONLYIN ["xfs"].
\* ------------------------------------------------------------------------
NameIn(i, names) == \E k \in 1..Len(names) : names[k] = idinfos[i].name

IndexOf(name) == CHOOSE i \in Registry : idinfos[i].name = name

C8_FilterByName ==
    /\ (last.op = "filter_types" /\ last.rc = 0) =>
          \A i \in Registry :
              filtered(pr, i) <=>
                  IF "ONLYIN" \in last.flag THEN ~NameIn(i, last.names)
                  ELSE NameIn(i, last.names)
    /\ (/\ AcceptsByWindow(pr, IndexOf("LVM2_member"))
        /\ AcceptsByWindow(pr, IndexOf("xfs"))
        /\ \A j \in Registry : j < IndexOf("LVM2_member") => ~AcceptsByWindow(pr, j)) =>
          /\ MayRun(pr) = Registry =>
                LET r == blkid_do_probe(pr)
                IN  r.rc = 0 /\ idinfos[r.pr.idx].name = "LVM2_member"
          /\ (/\ last.op = "filter_types" /\ last.rc = 0
              /\ last.flag = {"ONLYIN"} /\ last.names = <<"xfs">>) =>
                LET r == blkid_do_probe(pr)
                IN  r.rc = 0 /\ idinfos[r.pr.idx].name = "xfs"

\* ONLYIN ["xfs"] was installed on the LVM2-over-xfs device after a probe
\* had reported LVM2_member
C8_Witness ==
    /\ last.op = "filter_types" /\ last.rc = 0
    /\ last.flag = {"ONLYIN"} /\ last.names = <<"xfs">>
    /\ last.idx0 = IndexOf("LVM2_member")
    /\ AcceptsByWindow(pr, IndexOf("LVM2_member"))
    /\ AcceptsByWindow(pr, IndexOf("xfs"))
    /\ MayRun(pr) = {IndexOf("xfs")}

\* ------------------------------------------------------------------------
\* C9 -- Cursor invariant: the cursor lies in [0, ARRAY_SIZE(idinfos)], and
\* after every filter reset, by-name, by-usage, invert or bind call that
\* returned 0 it is 0.
\* ------------------------------------------------------------------------
CursorResetOps ==
    {"reset_filter", "filter_types", "filter_usage", "invert_filter", "set_device"}

C9_CursorInvariant ==
    /\ pr.idx \in 0..ARRAY_SIZE_idinfos
    /\ (last.op \in CursorResetOps /\ last.rc = 0) => pr.idx = 0

\* a bind succeeded on a session whose cursor a probe had moved
C9_Witness ==
    /\ last.op = "set_device" /\ last.rc = 0
    /\ last.idx0 > 0
    /\ pr.idx = 0

\* ------------------------------------------------------------------------
\* C10 -- Session reset, as claimed: blkid_reset_probe leaves the tag
\* store empty, the superblock buffer unfilled, the general window empty and
\* the cursor at 0, and does not change fd, origin and size.
\* ------------------------------------------------------------------------
ResetClears ==
    /\ pr'.nvals = 0
    /\ \A k \in DOMAIN pr'.vals : pr'.vals[k] = EmptyVal
    /\ pr'.sbbuf_len = 0
    /\ pr'.buf_len = 0
    /\ pr'.buf_off = 0
    /\ pr'.fd = pr.fd /\ pr'.off = pr.off /\ pr'.size = pr.size

C10_ResetClearsCursor ==
    [][last'.op = "reset_probe" => (ResetClears /\ pr'.idx = 0)]_vars

\* C10, amended: blkid_reset_probe leaves the tag store empty, the
\* superblock buffer unfilled and the general window empty, and does not
\* change fd, origin, size or the cursor.
C10_ResetKeepsCursor ==
    [][last'.op = "reset_probe" => (ResetClears /\ pr'.idx = pr.idx)]_vars

\* a bound session was reset after a probe had moved the cursor
C10_Witness ==
    /\ last.op = "reset_probe"
    /\ pr.fd # 0
    /\ last.idx0 > 0
    /\ pr.idx = last.idx0
    /\ pr.nvals = 0 /\ pr.sbbuf_len = 0 /\ pr.buf_len = 0

\* ------------------------------------------------------------------------
\* C11 -- Emitter gating, as claimed: with an empty request mask a call of
\* blkid_do_probe in which a prober accepts returns MATCHED and leaves
\* blkid_probe_numof_values() at 0, whichever emitters the prober called.
\* ------------------------------------------------------------------------
C11_NoValuesWithEmptyRequest ==
    (last.op = "do_probe" /\ last.rc = 0 /\ pr.probreq = {}) =>
        blkid_probe_numof_values(pr) = 0

\* ------------------------------------------------------------------------
\* C13 -- Bind on a short device, as claimed: blkid_probe_set_device
\* returns 0 exactly when the read at the origin returns at least one byte.
\* ------------------------------------------------------------------------
C13_BindSucceedsOnAnyByte ==
    last.op = "set_device" =>
        (last.rc = 0 <=> read_count(pr.fd, pr.off, BLKID_SB_BUFSIZ) >= 1)

\* C13, amended: blkid_probe_set_device returns 0 exactly when the 512
\* bytes at the origin can be read, and -1 otherwise; blkid_do_probe on the
\* session a failed bind leaves returns EXHAUSTED, and no call of
\* blkid_do_probe returns -1.
C13_BindNeedsFirstSector ==
    /\ last.op = "set_device" =>
          /\ last.rc = 0 <=> OnDevice(pr, 0, 512)
          /\ last.rc # 0 => last.rc = -1 /\ blkid_do_probe(pr).rc = 1
    /\ last.op = "do_probe" => last.rc \in {0, 1}

\* a bind failed on a device whose first read is short, but not empty
C13_Witness ==
    /\ last.op = "set_device" /\ last.rc = -1
    /\ read_count(pr.fd, pr.off, BLKID_SB_BUFSIZ) \in 1..511
    /\ pr.sbbuf_len = read_count(pr.fd, pr.off, BLKID_SB_BUFSIZ)

\* ------------------------------------------------------------------------
\* C17 -- TYPE/USAGE auto-append, as claimed: after a call of
\* blkid_do_probe that returned MATCHED, with TYPE requested the store
\* holds a TYPE tag with the name of the prober at the cursor, and with
\* USAGE requested a USAGE tag with the name of its usage class, however
\* many tags the prober emitted itself.
\* ------------------------------------------------------------------------
UsageName(usage) ==
    IF "FILESYSTEM" \in usage THEN "filesystem"
    ELSE IF "RAID" \in usage THEN "raid"
    ELSE IF "CRYPTO" \in usage THEN "crypto"
    ELSE IF "OTHER" \in usage THEN "other"
    ELSE "unknown"

HoldsTag(p, name, value) ==
    \E k \in 0..(p.nvals - 1) :
        /\ p.vals[k].name = name
        /\ p.vals[k].data = value
        /\ p.vals[k].len = Len(value)

C17_TypeAndUsageAppended ==
    (last.op = "do_probe" /\ last.rc = 0) =>
        /\ "TYPE" \in pr.probreq =>
              HoldsTag(pr, "TYPE", CStrZ(idinfos[pr.idx].name))
        /\ "USAGE" \in pr.probreq =>
              HoldsTag(pr, "USAGE", CStrZ(UsageName(idinfos[pr.idx].usage)))

\* ------------------------------------------------------------------------
\* C18 -- Soft failures skip and continue: a buffer request that fails in
\* the magic pre-check of a prober (the device ends inside the 1 KiB
\* window, in either tier) never makes blkid_do_probe return -1; that
\* prober is not reported on the strength of the unreadable magic, and a
\* later unfiltered prober whose magic is readable and whose probe function
\* accepts is still reported (unless an earlier one is).
\* ------------------------------------------------------------------------
SoftFailure(p, i) ==
    /\ idinfos[i].has_magics
    /\ \E k \in 1..Len(idinfos[i].magics) :
           ~MagicWindowOnDevice(p, idinfos[i].magics[k])

C18_SoftFailuresSkip ==
    last.op = "do_probe" =>
        /\ last.rc \in {0, 1}
        /\ \A i \in Registry :
              (~filtered(pr, i) /\ SoftFailure(pr, i)) =>
                  /\ (last.rc = 0 /\ pr.idx = i) => AcceptsByWindow(pr, i)
                  /\ \A j \in Registry :
                        (j > i /\ ~filtered(pr, j) /\ AcceptsByWindow(pr, j)) =>
                            (last.rc = 0 /\ pr.idx <= j)

\* ------------------------------------------------------------------------
\* The emitter calls of EmitSpec: what a call found and what it appended.
\* ------------------------------------------------------------------------

\* the tags the last emitter call appended, in order
Appended == [k \in 1..(pr.nvals - emit.nvals0) |-> pr.vals[emit.nvals0 + k - 1]]

AppendedNames == [k \in 1..Len(Appended) |-> Appended[k].name]

\* the call left every slot it found filled as it was
KeptOldTags ==
    \A k \in 0..(emit.nvals0 - 1) : pr.vals[k] = emit.vals0[k]

\* the call had room for two tags
RoomForTwo == emit.nvals0 + 2 <= BLKID_PROBVAL_NVALS

\* a tag value of these bytes
Tag(name, value) == [name |-> name, data |-> value, len |-> Len(value)]

\* ------------------------------------------------------------------------
\* C12 -- Capacity exhaustion, as claimed: an emitter that finds the tag
\* store full, and whose tag is requested and would be appended, returns
\* -1, leaves the session valid and the tag count at BLKID_PROBVAL_NVALS.
\* ------------------------------------------------------------------------
WouldAppend ==
    \/ emit.fn \in {"set_value", "vsprintf_value"} /\ emit.name # NULL
    \/ emit.fn = "set_version" /\ "VERSION" \in pr.probreq
    \/ emit.fn \in {"set_label", "set_utf8label"}
          /\ pr.probreq \cap {"LABEL", "LABEL_RAW"} # {}
    \/ emit.fn = "set_uuid" /\ ~uuid_is_empty(emit.data, 16)
          /\ pr.probreq \cap {"UUID", "UUID_RAW"} # {}
    \/ emit.fn = "set_uuid_as" /\ ~uuid_is_empty(emit.data, 16)
          /\ "UUID" \in pr.probreq
    \/ emit.fn = "sprintf_uuid" /\ ~uuid_is_empty(emit.data, emit.len)
          /\ pr.probreq \cap {"UUID", "UUID_RAW"} # {}

C12_FullStoreFails ==
    (emit.fn # "none" /\ emit.nvals0 = BLKID_PROBVAL_NVALS /\ WouldAppend) =>
        /\ emit.rc = -1
        /\ pr.ub = "none"
        /\ pr.nvals = BLKID_PROBVAL_NVALS

\* ------------------------------------------------------------------------
\* C14 -- sprintf_uuid lowercasing, as claimed: when
\* blkid_probe_sprintf_uuid returns 0 after appending a UUID tag, the value
\* of that tag holds no character of 'A'..'F', and no other slot of the tag
\* store is modified.
\* ------------------------------------------------------------------------
C14_SprintfUuidLowercases ==
    (emit.fn = "sprintf_uuid" /\ emit.rc = 0 /\ pr.nvals > emit.nvals0
     /\ pr.vals[pr.nvals - 1].name = "UUID") =>
        /\ \A i \in 1..Len(pr.vals[pr.nvals - 1].data) :
              pr.vals[pr.nvals - 1].data[i] \notin 65..70
        /\ KeptOldTags
        /\ \A k \in pr.nvals..(BLKID_PROBVAL_NVALS - 1) : pr.vals[k] = emit.vals0[k]
        /\ pr.ub = "none"

\* ------------------------------------------------------------------------
\* C15 -- set_uuid gating and naming, as claimed: for a non-zero UUID (and
\* room in the store) blkid_probe_set_uuid / blkid_probe_set_uuid_as
\* appends UUID_RAW exactly when UUID_RAW is requested and no name is
\* given, and then the formatted tag, named UUID or as the caller says,
\* exactly when UUID is requested.
\* ------------------------------------------------------------------------
C15_SetUuidGating ==
    (emit.fn \in {"set_uuid", "set_uuid_as"} /\ ~uuid_is_empty(emit.data, 16)
     /\ RoomForTwo) =>
        AppendedNames =
            (IF "UUID_RAW" \in pr.probreq /\ emit.name = NULL
             THEN <<"UUID_RAW">> ELSE <<>>)
            \o (IF "UUID" \in pr.probreq
                THEN <<IF emit.name = NULL THEN "UUID" ELSE emit.name>>
                ELSE <<>>)

\* ------------------------------------------------------------------------
\* C16 -- Label dual emission, as claimed: blkid_probe_set_label (with room
\* in the store) appends LABEL_RAW, if requested, holding the raw bytes as
\* they are, and then LABEL, if requested, holding the bytes up to the
\* first NUL without their trailing white space, and a terminating NUL.
\* ------------------------------------------------------------------------

\* the bytes of raw before its first NUL, without the white space at their
\* end
StrippedLabel(raw) ==
    LET nuls == {k \in 1..Len(raw) : raw[k] = 0}
        n == IF nuls = {} THEN Len(raw)
             ELSE (CHOOSE k \in nuls : \A j \in nuls : k <= j) - 1
        ends == {m \in 0..n : \A k \in (m + 1)..n : isspace(raw[k])}
    IN  Take(raw, CHOOSE m \in ends : \A j \in ends : m <= j)

C16_LabelDualEmission ==
    (emit.fn = "set_label" /\ RoomForTwo) =>
        LET raw == Take(emit.data, Min(emit.len, BLKID_PROBVAL_BUFSIZ)) IN
        /\ emit.rc = 0
        /\ Appended =
              (IF "LABEL_RAW" \in pr.probreq
               THEN <<Tag("LABEL_RAW", raw)>> ELSE <<>>)
              \o (IF "LABEL" \in pr.probreq
                  THEN <<Tag("LABEL", StrippedLabel(raw) \o <<0>>)>> ELSE <<>>)

\* ------------------------------------------------------------------------
\* C19 -- Tag store bounds, as claimed: the tag store holds between 0 and
\* BLKID_PROBVAL_NVALS tags, and the recorded length of every stored tag is
\* at most BLKID_PROBVAL_BUFSIZ, whatever the emitters were called with.
\* ------------------------------------------------------------------------
C19_TagStoreBounds ==
    /\ pr.nvals \in 0..BLKID_PROBVAL_NVALS
    /\ \A k \in 0..(pr.nvals - 1) : pr.vals[k].len <= BLKID_PROBVAL_BUFSIZ

\* ------------------------------------------------------------------------
\* C20 -- Buffer cache coherence, as claimed: on a bound session, whatever
\* calls of blkid_probe_get_buffer went before, successful or failed, a
\* call that returns a pointer returns the len bytes the device holds at
\* origin + off.
\* ------------------------------------------------------------------------
C20_BufferCoherent ==
    (emit.fn = "get_buffer" /\ ~emit.ret.null) =>
        PtrBytes(pr, emit.ret, 0, emit.len)
            = DevBytes(pr.fd, pr.off + emit.off, emit.len)

\* ------------------------------------------------------------------------
\* C21 -- Emitter atomicity on error, as claimed: a value emitter that
\* returns -1 leaves the tag store as it found it: the same number of
\* tags, each as it was; no LABEL_RAW or UUID_RAW tag stays appended when
\* the LABEL or UUID tag behind it could not be stored.
\* ------------------------------------------------------------------------
C21_FailedEmitterKeepsStore ==
    (emit.fn \in {"set_label", "set_utf8label", "set_uuid", "sprintf_uuid",
                  "set_value", "vsprintf_value", "sprintf_version"}
     /\ emit.rc = -1) =>
        /\ pr.nvals = emit.nvals0
        /\ KeptOldTags

====
